---- MODULE Spec2Model ----
(***************************************************************************)
(* draco/learn/data_util.py: the parallel feature-vectorisation engine.    *)
(* run_in_parallel splits the example list with np.array_split, hands the  *)
(* partitions to a process pool whose workers run pair_partition_to_vec    *)
(* over a manager dict shared for memoisation, concatenates the fragments  *)
(* in partition order and sorts the table by its pair_id index.            *)
(*                                                                         *)
(* Strings that are compared or sorted (pair_id, source) are sequences of  *)
(* ASCII codes, so that sort_index orders them as Python orders str.       *)
(***************************************************************************)
EXTENDS Integers, Sequences, FiniteSets, TLC

VARIABLES
    per_worker,  \* history: the invocations of the counter by worker and key
    entry,       \* the entry point that runs: "__main__" or "get_unlabeled_data"
    to_label,    \* the files of data/to_label that load_unlabeled_specs reads
    raised,      \* the exception the program ended with, "" for none
    errors,      \* the exceptions the pool workers sent back, in order
    vecs,        \* the frame _get_pos_neg_data returns
    data,        \* the list handed to run_in_parallel
    cpu,         \* multiprocessing.cpu_count()
    pc,          \* run_in_parallel: "start", "map", "done", "error"
    splits,      \* run_in_parallel.splits
    df_split,    \* run_in_parallel.df_split: the partitions
    processes,   \* run_in_parallel.processes
    d,           \* the manager dict: key -> feature vector
    next_chunk,  \* the pool's task queue: the next chunk of partitions
    workers,     \* the pool's worker processes
    results,     \* pool.map's result list: partition -> fragment
    completed,   \* the partitions in the order their fragments arrived
    df,          \* the table run_in_parallel returns
    fingerprint, \* the hash run_in_parallel logs
    calls,       \* key -> count_violations invocations
    misses,      \* key -> observed cache misses
    first        \* key -> the vector first stored for it

vars == <<per_worker, entry, to_label, raised, errors, vecs, data, cpu, pc, splits, df_split, processes, d, next_chunk, workers,
          results, completed, df, fingerprint, calls, misses, first>>

----------------------------------------------------------------------------
(* Bounds of the model *)

MaxN == 12         \* examples in the list handed to run_in_parallel
MaxPeriod == 2     \* distinct example contents recurring in a file
MaxSplitN == 205   \* list lengths of the partitioner-only specification
MaxSplitCpu == 2   \* cpu_count() of the partitioner-only specification
MaxParseN == 11    \* rows of a training file with a malformed payload
MaxSpecs == 2      \* specs in a group of the first file of data/to_label
MaxTrackN == 11    \* examples of the runs whose invocations are recorded by worker

(* Program constants *)

SplitsPerCpu == 20     \* cpu_count() * 20
ItemsPerSplit == 10    \* len(data) / 10

----------------------------------------------------------------------------
(* Helpers *)

Min(a, b) == IF a <= b THEN a ELSE b

CeilDiv(a, b) == (a + b - 1) \div b

NaN == -1

Hyphen == 45

RECURSIVE Digits(_)
(* str(i): the decimal digits of i as ASCII codes *)
Digits(i) == IF i < 10 THEN <<48 + i>> ELSE Digits(i \div 10) \o <<48 + (i % 10)>>

(* Python's str comparison a < b *)
RECURSIVE StrLess(_, _)
StrLess(a, b) ==
    IF a = << >> THEN b # << >>
    ELSE IF b = << >> THEN FALSE
    ELSE IF Head(a) # Head(b) THEN Head(a) < Head(b)
    ELSE StrLess(Tail(a), Tail(b))

StrLeq(a, b) == a = b \/ StrLess(a, b)

----------------------------------------------------------------------------
(* Examples, as load_neg_pos_specs builds them from the training files *)

Features == {"f1", "f2"}

Categories == {"negative", "positive"}

(* f'{src}-{i}' *)
PairId(src, i) == src \o <<Hyphen>> \o Digits(i)

PosNegExample(pair_id, schema, task, source, negative, positive) ==
    [pair_id |-> pair_id, data |-> schema, task |-> task, source |-> source,
     negative |-> negative, positive |-> positive]

(* Data(fields, num_rows): the schema of a row *)
Data(row) == row.num_rows

(* the loop over json_data['data'] from the row that gets number i on; i   *)
(* counts from 0 in every file                                              *)
LoadFile(src, rows, i) ==
    [k \in 1..(Len(rows) - i) |->
        PosNegExample(PairId(src, i + k - 1), Data(rows[i + k]), rows[i + k].task, src,
                      rows[i + k].negative, rows[i + k].positive)]

RECURSIVE load_neg_pos_specs(_)
(* the loop over the four paths: raw_data grows file after file *)
load_neg_pos_specs(files) ==
    IF files = << >> THEN << >>
    ELSE LoadFile(Head(files).source, Head(files).data, 0)
         \o load_neg_pos_specs(Tail(files))

(* The contents of the training files: n rows whose payloads recur with a     *)
(* period; the positive payload of one row is the negative of the next kind.  *)
JsonRows(n, period) ==
    [i \in 1..n |->
        LET kind == (i - 1) % period
        IN [num_rows |-> 0, task |-> kind \div 2,
            negative |-> kind, positive |-> kind + 1]]

SourceA == <<97>>
SourceB == <<98>>

TrainingFiles(n1, n2, src2, period) ==
    << [source |-> SourceA, data |-> JsonRows(n1, period)],
       [source |-> src2,    data |-> JsonRows(n2, period)],
       [source |-> SourceA, data |-> << >>],
       [source |-> SourceB, data |-> << >>] >>

----------------------------------------------------------------------------
(* Unlabeled pairs, as load_unlabeled_specs builds them from data/to_label *)

(* 'halden' *)
Halden == <<104, 97, 108, 100, 101, 110>>

(* Python's None *)
None == -1

UnlabeledExample(pair_id, schema, task, source, left, right) ==
    [pair_id |-> pair_id, data |-> schema, task |-> task, source |-> source,
     left |-> left, right |-> right]

(* acquire_data(url): the Data object read for the url, one per url *)
acquire_data(url) == url

RECURSIVE Combinations(_)
(* itertools.combinations(spec_list, 2), in its order *)
Combinations(spec_list) ==
    IF Len(spec_list) < 2 THEN << >>
    ELSE [j \in 1..(Len(spec_list) - 1) |-> <<spec_list[1], spec_list[j + 1]>>]
         \o Combinations(Tail(spec_list))

RECURSIVE PairsOfGroups(_)
(* the pairs of one file: for num_channel in content, for spec_list in      *)
(* content[num_channel]; the file is read as the sequence of its groups     *)
PairsOfGroups(content) ==
    IF content = << >> THEN << >>
    ELSE Combinations(Head(content)) \o PairsOfGroups(Tail(content))

RECURSIVE PairsOfFiles(_)
(* for fname in files *)
PairsOfFiles(files) ==
    IF files = << >> THEN << >>
    ELSE PairsOfGroups(Head(files)) \o PairsOfFiles(Tail(files))

(* the names load_unlabeled_specs can read in its loop body: its locals     *)
(* and the globals of the module                                            *)
NamesInScope ==
    {"files", "data_cache", "acquire_data", "raw_data", "cnt", "fname", "f",
     "content", "num_channel", "spec_list", "left", "right", "url",
     "os", "json", "itertools", "logger", "halden_data_path", "data_dir",
     "UnlabeledExample", "Data"}

(* assert left != right, '...'.format(os.path.basename(fname), num_channel, *)
(* i): the message is evaluated when the assertion fails, and it reads the  *)
(* name i.                                                                  *)
SameContentError == IF "i" \in NamesInScope THEN "AssertionError" ELSE "NameError"

RECURSIVE LoadPairs(_, _, _)
(* the loop body for the pairs from the k-th on; cnt is len(raw_data)       *)
LoadPairs(pairs, k, raw_data) ==
    IF k > Len(pairs) THEN [raised |-> "", raw_data |-> raw_data]
    ELSE LET left == pairs[k][1]
             right == pairs[k][2]
             cnt == Len(raw_data)
         IN  IF left = right
             THEN [raised |-> SameContentError, raw_data |-> << >>]
             ELSE IF left.data.url # right.data.url
             THEN [raised |-> "AssertionError", raw_data |-> << >>]
             ELSE LoadPairs(pairs, k + 1,
                      Append(raw_data,
                             UnlabeledExample(PairId(Halden, cnt), None,
                                              acquire_data(left.data.url),
                                              Halden, left, right)))

(* load_unlabeled_specs: the exception it ends with or the list it returns *)
load_unlabeled_specs(files) == LoadPairs(PairsOfFiles(files), 1, << >>)

(* pair_partition_to_vec rebuilds the example it is handed as a             *)
(* PosNegExample, the fields taken by position: left as negative and right  *)
(* as positive; of a spec, the payload the query is parsed from is its      *)
(* mark.                                                                    *)
AsPosNeg(example) ==
    PosNegExample(example.pair_id, example.data, example.task, example.source,
                  example.left.mark, example.right.mark)

(* the specs of the files: a data url and what the chart shows *)
UnlabeledSpecs ==
    { [data |-> [url |-> 1], mark |-> 0], [data |-> [url |-> 1], mark |-> 1],
      [data |-> [url |-> 1], mark |-> 2], [data |-> [url |-> 2], mark |-> 0] }

(* a group of three different specs over one url *)
SoundGroup ==
    << [data |-> [url |-> 1], mark |-> 0], [data |-> [url |-> 1], mark |-> 1],
       [data |-> [url |-> 1], mark |-> 2] >>

(* The directory data/to_label: a file with one group of up to maxSpecs     *)
(* specs, and before or after it a file that is empty or holds the sound    *)
(* group.                                                                   *)
ToLabel(maxSpecs) ==
    LET groups == UNION { [1..n -> UnlabeledSpecs] : n \in 1..maxSpecs }
        others == { << >>, <<SoundGroup>> }
    IN  { <<(<<g>>), o>> : g \in groups, o \in others }
          \cup { <<o, (<<g>>)>> : g \in groups, o \in others }

----------------------------------------------------------------------------
(* draco.spec and draco.learn.helper: tasks, their keys, the counter *)

(* a payload that is no Vega-Lite specification *)
Malformed == -1

(* Query.from_vegalite accepts the payload; it raises on one it cannot      *)
(* parse                                                                    *)
Parses(payload) == payload # Malformed

(* the number of encodings of a Vega-Lite payload *)
NumEncodings(payload) == 1 + (payload % 2)

(* Query.from_vegalite: every encoding takes the next id from the class     *)
(* counter Encoding.encoding_cnt, here the ids cnt .. cnt + n - 1.          *)
from_vegalite(payload, cnt) == [content |-> payload, first |-> cnt]

Task(schema, query, task) == [data |-> schema, query |-> query, task |-> task]

(* Task.to_asp: the program text of the task, which names the schema, the   *)
(* task type and every encoding with its id.                                *)
to_asp(task) == <<task.data, task.task, task.query.content, task.query.first>>

(* the task pair_partition_to_vec builds from the negative payload, right    *)
(* after Encoding.encoding_cnt = 0                                          *)
NegativeTask(example) ==
    Task(example.data, from_vegalite(example.negative, 0), example.task)

(* the task built from the positive payload: the counter stands where the   *)
(* negative query left it                                                   *)
PositiveTask(example) ==
    Task(example.data,
         from_vegalite(example.positive, 0 + NumEncodings(example.negative)),
         example.task)

(* count_violations: the violated soft constraints of the task with their   *)
(* counts; a constraint that is not violated has no entry. The counts do    *)
(* not depend on the names of the encodings.                                *)
count_violations(task) ==
    LET p == task.query.content
    IN  IF p % 3 = 0 THEN [f \in {"f1"} |-> p + 1]
        ELSE IF p % 3 = 1 THEN [f \in Features |-> p + task.task]
        ELSE [f \in {"f2"} |-> 0]

----------------------------------------------------------------------------
(* Frames: the parts of pandas the program uses *)

(* get_nested_index *)
get_nested_index ==
    (Categories \X Features) \cup {<<"source", "">>, <<"task", "">>}

(* pd.DataFrame without index=[pair_id]: the row is not labelled with the    *)
(* pair_id                                                                  *)
DataFrameNoIndex(specs, columns, index) ==
    [columns |-> columns,
     rows |-> << [index |-> << >>,
                  cells |-> [c \in columns |->
                                IF c \in DOMAIN specs THEN specs[c] ELSE NaN]] >>]

(* a frame constructor that puts zero in a column without an entry *)
DataFrameZeroFilled(specs, columns, index) ==
    [columns |-> columns,
     rows |-> << [index |-> index,
                  cells |-> [c \in columns |->
                                IF c \in DOMAIN specs THEN specs[c] ELSE 0]] >>]

(* pd.DataFrame(specs, columns=columns, index=[pair_id]): one row; a column *)
(* without an entry in specs holds NaN.                                     *)
DataFrame(specs, columns, index) ==
    [columns |-> columns,
     rows |-> << [index |-> index,
                  cells |-> [c \in columns |->
                                IF c \in DOMAIN specs THEN specs[c] ELSE NaN]] >>]

RECURSIVE ConcatRows(_)
ConcatRows(frames) ==
    IF frames = << >> THEN << >>
    ELSE Head(frames).rows \o ConcatRows(Tail(frames))

(* pd.concat of a non-empty list of frames over the same columns *)
Concat(frames) == [columns |-> frames[1].columns, rows |-> ConcatRows(frames)]

(* the rows that the sort places before row i: those of a lesser index and  *)
(* those of the same index that stand before it                             *)
RowsBefore(rows, i) ==
    { j \in 1..Len(rows) :
        \/ StrLess(rows[j].index, rows[i].index)
        \/ rows[j].index = rows[i].index /\ j < i }

(* the rows in ascending order of the index; rows of equal index keep their *)
(* order                                                                    *)
SortRows(rows) ==
    [p \in 1..Len(rows) |->
        rows[CHOOSE i \in 1..Len(rows) : Cardinality(RowsBefore(rows, i)) = p - 1]]

(* the frame left as concatenated *)
sort_index_none(frame) == frame

(* data.fillna(value): every NaN of the feature columns replaced; the       *)
(* source and task columns hold no NaN                                      *)
fillna(frame, value) ==
    [columns |-> frame.columns,
     rows |-> [i \in 1..Len(frame.rows) |->
                 [index |-> frame.rows[i].index,
                  cells |-> [c \in DOMAIN frame.rows[i].cells |->
                               IF c[1] \in Categories /\ frame.rows[i].cells[c] = NaN
                               THEN value ELSE frame.rows[i].cells[c]]]]]

(* df.sort_index() *)
sort_index(frame) == [columns |-> frame.columns, rows |-> SortRows(frame.rows)]

HashModulus == 65536

RECURSIVE SumSeq(_)
SumSeq(s) == IF s = << >> THEN 0 ELSE Head(s) + SumSeq(Tail(s))

RECURSIVE SumCells(_, _)
SumCells(cells, cols) ==
    IF cols = {} THEN 0
    ELSE LET c == CHOOSE x \in cols : TRUE
         IN (cells[c] + 2) + SumCells(cells, cols \ {c})

(* the hash of one row: its index and its values *)
RowHash(row) ==
    (SumSeq(row.index) + 31 * SumCells(row.cells, Categories \X Features)
       + SumSeq(row.cells[<<"source", "">>]) + row.cells[<<"task", "">>]) % HashModulus

RECURSIVE SumHashes(_)
SumHashes(rows) ==
    IF rows = << >> THEN 0 ELSE (RowHash(Head(rows)) + SumHashes(Tail(rows))) % HashModulus

(* hash_pandas_object(df).sum() *)
hash_pandas_object(frame) == SumHashes(frame.rows)

----------------------------------------------------------------------------
(* The partitioner *)

(* np.array_split(data, sections): the first len % sections parts hold one  *)
(* element more than the others.                                            *)
DivPoint(n, sections, k) == k * (n \div sections) + Min(k, n % sections)

(* slices that stop one element short of the end of the list *)
array_split_short(list, sections) ==
    [k \in 1..sections |->
        SubSeq(list, DivPoint(Len(list), sections, k - 1) + 1,
                     IF k = sections THEN Len(list) - 1
                     ELSE DivPoint(Len(list), sections, k))]

(* slices that each start on the last element of the slice before *)
array_split_overlap(list, sections) ==
    [k \in 1..sections |->
        SubSeq(list, IF k = 1 THEN 1 ELSE DivPoint(Len(list), sections, k - 1),
                     DivPoint(Len(list), sections, k))]

array_split(list, sections) ==
    [k \in 1..sections |->
        SubSeq(list, DivPoint(Len(list), sections, k - 1) + 1,
                     DivPoint(Len(list), sections, k))]

(* the number of partitions with len(data) // 10 for the ceiling *)
SplitsFloorDiv(n, c) == Min(c * SplitsPerCpu, n \div ItemsPerSplit)

(* the number of partitions taken from the cpu count alone *)
SplitsCpuOnly(n, c) == c * SplitsPerCpu

(* min([cpu_count() * 20, math.ceil(len(data) / 10)]) *)
Splits(n, c) == Min(c * SplitsPerCpu, CeilDiv(n, ItemsPerSplit))

(* min(cpu_count(), splits) *)
Processes(c, s) == Min(c, s)

(* Pool.map's chunksize: ceil(len(iterable) / (4 * processes)) *)
Chunksize(s, procs) == CeilDiv(s, 4 * procs)

----------------------------------------------------------------------------
(* The state machine *)

Sources == {SourceA, SourceB}

(* cpu_count(): one processor, or two. The lists of the runs make at most   *)
(* two partitions, so the pool has min(cpu_count(), splits) <= 2 processes  *)
(* whatever the count above two.                                            *)
CpuCounts == {1, 2}

(* The lists handed to run_in_parallel: what load_neg_pos_specs reads from  *)
(* training files of up to maxN rows together.                              *)
(* The second file: empty, or one row under the source of the first file   *)
(* or under another source.                                                 *)
SecondFiles == {<<0, SourceA>>, <<1, SourceA>>, <<1, SourceB>>}

Inputs(maxN, maxPeriod) ==
    { load_neg_pos_specs(TrainingFiles(t[1] - t[2][1], t[2][1], t[2][2], t[3])) :
        t \in { u \in (0..maxN) \X SecondFiles \X (1..maxPeriod) :
                  u[2][1] <= u[1] } }

IdleWorker ==
    [pc |-> "idle", part |-> 0, last |-> 0, i |-> 0, encoding_cnt |-> 0,
     side |-> "negative", task |-> << >>, value |-> << >>,
     neg_feature_vec |-> << >>, dfs |-> << >>, error |-> ""]

StartRun(list, c, track) ==
    /\ per_worker = [on |-> track, invoked |-> << >>, returned |-> << >>]
    /\ entry = "__main__"
    /\ to_label = << >>
    /\ raised = ""
    /\ errors = << >>
    /\ vecs = [columns |-> {}, rows |-> << >>]
    /\ data = list
    /\ cpu = c
    /\ pc = "start"
    /\ splits = 0
    /\ df_split = << >>
    /\ processes = 0
    /\ d = << >>
    /\ next_chunk = 1
    /\ workers = << >>
    /\ results = << >>
    /\ completed = << >>
    /\ df = [columns |-> {}, rows |-> << >>]
    /\ fingerprint = 0
    /\ calls = << >>
    /\ misses = << >>
    /\ first = << >>

Start(list, c) == StartRun(list, c, FALSE)

Init == \E list \in Inputs(MaxN, MaxPeriod), c \in CpuCounts : Start(list, c)

(* f[x] + 1, with 0 for an x the function does not hold yet *)
Bump(f, x) == IF x \in DOMAIN f THEN [f EXCEPT ![x] = @ + 1] ELSE (x :> 1) @@ f

(* the history with one more invocation of the counter by worker w for the  *)
(* key, one that returned or one that raised; a history that is not kept    *)
(* stays as it is                                                           *)
Invoked(history, w, key, returns) ==
    IF ~history.on THEN history
    ELSE [on |-> TRUE,
          invoked |-> Bump(history.invoked, <<w, key>>),
          returned |-> IF returns THEN Bump(history.returned, <<w, key>>)
                       ELSE history.returned]

(* a write that is seen before all of the vector is in place *)
SetItemPartial(dict, key, value) ==
    LET part == [f \in DOMAIN value \ {"f2"} |-> value[f]]
    IN  IF key \in DOMAIN dict THEN [dict EXCEPT ![key] = part]
        ELSE (key :> part) @@ dict

(* a write that lands on every key of the dict *)
SetItemClobber(dict, key, value) == [k \in DOMAIN dict \cup {key} |-> value]

(* a dict that keeps the entry written last and drops the others *)
SetItemEvict(dict, key, value) == (key :> value)

(* d[key] = value on a dict *)
SetItem(dict, key, value) ==
    IF key \in DOMAIN dict THEN [dict EXCEPT ![key] = value] ELSE (key :> value) @@ dict

(* run_in_parallel, lines 214-223, when np.array_split accepts the number   *)
(* of sections: the partitions, the pool and the shared dict.               *)
Split ==
    /\ pc = "start"
    /\ Splits(Len(data), cpu) > 0
    /\ splits' = Splits(Len(data), cpu)
    /\ df_split' = array_split(data, splits')
    /\ processes' = Processes(cpu, splits')
    /\ d' = << >>
    /\ workers' = [w \in 1..processes' |-> IdleWorker]
    /\ next_chunk' = 1
    /\ pc' = "map"
    /\ UNCHANGED <<per_worker, entry, to_label, raised, errors, vecs, data, cpu, results, completed, df, fingerprint, calls, misses, first>>

(* np.array_split raises ValueError('number sections must be larger than    *)
(* 0.'): run_in_parallel ends with the exception.                           *)
SplitRaises ==
    /\ pc = "start"
    /\ Splits(Len(data), cpu) <= 0
    /\ splits' = Splits(Len(data), cpu)
    /\ raised' = "ValueError"
    /\ pc' = "error"
    /\ UNCHANGED <<per_worker, entry, to_label, errors, vecs, data, cpu, df_split, processes, d, next_chunk, workers, results,
                   completed, df, fingerprint, calls, misses, first>>

(* the loop body without the reset: the encodings of an example are         *)
(* numbered on from where the example before it left the counter            *)
BeginExampleNoReset(wk, i) ==
    LET example == df_split[wk.part][i]
    IN  [wk EXCEPT !.pc = "contains", !.i = i, !.side = "negative",
                   !.encoding_cnt = wk.encoding_cnt + NumEncodings(example.negative),
                   !.task = Task(example.data,
                                 from_vegalite(example.negative, wk.encoding_cnt),
                                 example.task)]

(* pair_partition_to_vec at the head of its loop body for example i:        *)
(* Encoding.encoding_cnt = 0, then the negative task is built.              *)
BeginExample(wk, i) ==
    LET example == df_split[wk.part][i]
    IN  IF ~Parses(example.negative)
        THEN [wk EXCEPT !.pc = "failed", !.i = i, !.side = "negative",
                        !.encoding_cnt = 0, !.error = "DataFormatError"]
        ELSE [wk EXCEPT !.pc = "contains", !.i = i, !.side = "negative",
                        !.encoding_cnt = 0 + NumEncodings(example.negative),
                        !.task = NegativeTask(example)]

(* pair_partition_to_vec called with partition part: no frames yet; for a   *)
(* partition without examples the loop is skipped and pd.concat([]) raises. *)
BeginPartition(wk, part) ==
    IF Len(df_split[part]) = 0
    THEN [wk EXCEPT !.pc = "failed", !.part = part, !.dfs = << >>, !.error = "ValueError"]
    ELSE BeginExample([wk EXCEPT !.part = part, !.dfs = << >>], 1)

NumChunks == CeilDiv(splits, Chunksize(splits, processes))

(* An idle pool worker takes the next chunk of partitions off the queue.    *)
(* The processes of the pool are interchangeable, so of the idle workers    *)
(* the one with the least number is the one that takes it.                  *)
TakeChunk(w) ==
    /\ pc = "map"
    /\ workers[w].pc = "idle"
    /\ \A v \in 1..(w - 1) : workers[v].pc # "idle"
    /\ next_chunk <= NumChunks
    /\ LET cs == Chunksize(splits, processes)
           lo == (next_chunk - 1) * cs + 1
           hi == Min(next_chunk * cs, splits)
       IN  workers' = [workers EXCEPT
                ![w] = BeginPartition([IdleWorker EXCEPT !.last = hi], lo)]
    /\ next_chunk' = next_chunk + 1
    /\ UNCHANGED <<per_worker, entry, to_label, raised, errors, vecs, data, cpu, pc, splits, df_split, processes, d, results, completed,
                   df, fingerprint, calls, misses, first>>

(* count_violations_memoized without its test: the task is counted whether   *)
(* or not its key is stored                                                 *)
ContainsIgnored(w) ==
    /\ pc = "map"
    /\ workers[w].pc = "contains"
    /\ workers' = [workers EXCEPT ![w].pc = "count"]
    /\ misses' = IF to_asp(workers[w].task) \notin DOMAIN d
                 THEN Bump(misses, to_asp(workers[w].task)) ELSE misses
    /\ UNCHANGED <<per_worker, entry, to_label, raised, errors, vecs, data, cpu, pc, splits, df_split, processes, d, next_chunk, results,
                   completed, df, fingerprint, calls, first>>

(* a count_violations_memoized that, on a key another worker is counting    *)
(* or storing, waits for that worker instead of counting the key itself     *)
ContainsWaits(w) ==
    /\ pc = "map"
    /\ workers[w].pc = "contains"
    /\ LET key == to_asp(workers[w].task)
       IN  /\ key \notin DOMAIN d =>
                  \A v \in DOMAIN workers \ {w} :
                      ~(/\ workers[v].pc \in {"count", "setitem"}
                        /\ to_asp(workers[v].task) = key)
           /\ IF key \notin DOMAIN d
              THEN /\ workers' = [workers EXCEPT ![w].pc = "count"]
                   /\ misses' = Bump(misses, key)
              ELSE /\ workers' = [workers EXCEPT ![w].pc = "getitem"]
                   /\ misses' = misses
    /\ UNCHANGED <<per_worker, entry, to_label, raised, errors, vecs, data, cpu, pc, splits, df_split, processes, d, next_chunk, results,
                   completed, df, fingerprint, calls, first>>

(* count_violations_memoized: key = task.to_asp(); key not in processed_specs *)
Contains(w) ==
    /\ pc = "map"
    /\ workers[w].pc = "contains"
    /\ LET key == to_asp(workers[w].task)
       IN  IF key \notin DOMAIN d
           THEN /\ workers' = [workers EXCEPT ![w].pc = "count"]
                /\ misses' = Bump(misses, key)
           ELSE /\ workers' = [workers EXCEPT ![w].pc = "getitem"]
                /\ misses' = misses
    /\ UNCHANGED <<per_worker, entry, to_label, raised, errors, vecs, data, cpu, pc, splits, df_split, processes, d, next_chunk, results,
                   completed, df, fingerprint, calls, first>>

(* count_violations(task) returns *)
Count(w) ==
    /\ pc = "map"
    /\ workers[w].pc = "count"
    /\ workers' = [workers EXCEPT ![w].pc = "setitem",
                                  ![w].value = count_violations(workers[w].task)]
    /\ per_worker' = Invoked(per_worker, w, to_asp(workers[w].task), TRUE)
    /\ calls' = Bump(calls, to_asp(workers[w].task))
    /\ UNCHANGED <<entry, to_label, raised, errors, vecs, data, cpu, pc, splits, df_split, processes, d, next_chunk, results,
                   completed, df, fingerprint, misses, first>>

(* a count_violations_memoized that stores an empty vector under the key    *)
(* when the counter raises                                                  *)
CountRaisesStored(w) ==
    /\ pc = "map"
    /\ workers[w].pc = "count"
    /\ workers' = [workers EXCEPT ![w].pc = "failed", ![w].error = "ComputeError"]
    /\ d' = SetItem(d, to_asp(workers[w].task), << >>)
    /\ per_worker' = Invoked(per_worker, w, to_asp(workers[w].task), FALSE)
    /\ calls' = Bump(calls, to_asp(workers[w].task))
    /\ UNCHANGED <<entry, to_label, raised, errors, vecs, data, cpu, pc, splits, df_split, processes, next_chunk, results,
                   completed, df, fingerprint, misses, first>>

(* count_violations(task) raises: the exception leaves                      *)
(* count_violations_memoized before its assignment, and then                *)
(* pair_partition_to_vec.                                                   *)
CountRaises(w) ==
    /\ pc = "map"
    /\ workers[w].pc = "count"
    /\ workers' = [workers EXCEPT ![w].pc = "failed", ![w].error = "ComputeError"]
    /\ per_worker' = Invoked(per_worker, w, to_asp(workers[w].task), FALSE)
    /\ calls' = Bump(calls, to_asp(workers[w].task))
    /\ UNCHANGED <<entry, to_label, raised, errors, vecs, data, cpu, pc, splits, df_split, processes, d, next_chunk, results,
                   completed, df, fingerprint, misses, first>>

(* processed_specs[key] = the counted value *)
Store(w) ==
    /\ pc = "map"
    /\ workers[w].pc = "setitem"
    /\ LET key == to_asp(workers[w].task)
       IN  /\ d' = SetItem(d, key, workers[w].value)
           /\ first' = IF key \in DOMAIN first THEN first
                       ELSE (key :> workers[w].value) @@ first
    /\ workers' = [workers EXCEPT ![w].pc = "getitem", ![w].value = << >>]
    /\ UNCHANGED <<per_worker, entry, to_label, raised, errors, vecs, data, cpu, pc, splits, df_split, processes, next_chunk, results,
                   completed, df, fingerprint, calls, misses>>

(* the specs dict of one example: both vectors under their category, the    *)
(* source and the task                                                      *)
RowSpecs(example, neg_feature_vec, pos_feature_vec) ==
    [c \in ({"negative"} \X DOMAIN neg_feature_vec)
            \cup ({"positive"} \X DOMAIN pos_feature_vec)
            \cup {<<"source", "">>, <<"task", "">>} |->
        IF c = <<"source", "">> THEN example.source
        ELSE IF c = <<"task", "">> THEN example.task
        ELSE IF c[1] = "negative" THEN neg_feature_vec[c[2]]
        ELSE pos_feature_vec[c[2]]]

(* return processed_specs[key] for the negative task; the positive task is  *)
(* built next, its encodings numbered on from the counter.                  *)
FetchNegative(w) ==
    /\ pc = "map"
    /\ workers[w].pc = "getitem"
    /\ workers[w].side = "negative"
    /\ LET wk == workers[w]
           example == df_split[wk.part][wk.i]
       IN  workers' = [workers EXCEPT ![w] =
              IF ~Parses(example.positive)
              THEN [wk EXCEPT !.pc = "failed", !.side = "positive",
                              !.neg_feature_vec = d[to_asp(wk.task)],
                              !.error = "DataFormatError"]
              ELSE [wk EXCEPT !.pc = "contains", !.side = "positive",
                              !.neg_feature_vec = d[to_asp(wk.task)],
                              !.encoding_cnt = wk.encoding_cnt + NumEncodings(example.positive),
                              !.task = Task(example.data,
                                            from_vegalite(example.positive, wk.encoding_cnt),
                                            example.task)]]
    /\ UNCHANGED <<per_worker, entry, to_label, raised, errors, vecs, data, cpu, pc, splits, df_split, processes, d, next_chunk, results,
                   completed, df, fingerprint, calls, misses, first>>

(* return processed_specs[key] for the positive task; the row of the        *)
(* example is appended to dfs and the loop goes on to the next example.     *)
FetchPositive(w) ==
    /\ pc = "map"
    /\ workers[w].pc = "getitem"
    /\ workers[w].side = "positive"
    /\ workers[w].i < Len(df_split[workers[w].part])
    /\ LET wk == workers[w]
           example == df_split[wk.part][wk.i]
           row == DataFrame(RowSpecs(example, wk.neg_feature_vec, d[to_asp(wk.task)]),
                            get_nested_index, example.pair_id)
       IN  workers' = [workers EXCEPT ![w] =
              BeginExample([wk EXCEPT !.dfs = Append(wk.dfs, row),
                                      !.neg_feature_vec = << >>], wk.i + 1)]
    /\ UNCHANGED <<per_worker, entry, to_label, raised, errors, vecs, data, cpu, pc, splits, df_split, processes, d, next_chunk, results,
                   completed, df, fingerprint, calls, misses, first>>

(* the same for the last example of the partition: pd.concat(dfs) is the    *)
(* fragment of the partition, and the worker goes on to the next partition  *)
(* of its chunk or, the chunk done, hands its fragments to pool.map.        *)
ReturnFragment(w) ==
    /\ pc = "map"
    /\ workers[w].pc = "getitem"
    /\ workers[w].side = "positive"
    /\ workers[w].i = Len(df_split[workers[w].part])
    /\ LET wk == workers[w]
           example == df_split[wk.part][wk.i]
           row == DataFrame(RowSpecs(example, wk.neg_feature_vec, d[to_asp(wk.task)]),
                            get_nested_index, example.pair_id)
           fragment == Concat(Append(wk.dfs, row))
       IN  /\ results' = (wk.part :> fragment) @@ results
           /\ completed' = Append(completed, wk.part)
           /\ workers' = [workers EXCEPT ![w] =
                 IF wk.part < wk.last
                 THEN BeginPartition([wk EXCEPT !.neg_feature_vec = << >>], wk.part + 1)
                 ELSE IdleWorker]
    /\ UNCHANGED <<per_worker, entry, to_label, raised, errors, vecs, data, cpu, pc, splits, df_split, processes, d, next_chunk, df,
                   fingerprint, calls, misses, first>>

(* An exception left pair_partition_to_vec: the pool worker sends it back   *)
(* as the outcome of its chunk, the rest of the chunk is not run, and the   *)
(* process is free to take the next chunk off the queue.                    *)
WorkerRaises(w) ==
    /\ pc = "map"
    /\ workers[w].pc = "failed"
    /\ errors' = Append(errors, [part |-> workers[w].part, error |-> workers[w].error,
                                 key |-> IF workers[w].error = "ComputeError"
                                         THEN to_asp(workers[w].task) ELSE << >>])
    /\ workers' = [workers EXCEPT ![w] = IdleWorker]
    /\ UNCHANGED <<per_worker, entry, to_label, raised, vecs, data, cpu, pc, splits, df_split, processes, d, next_chunk,
                   results, completed, df, fingerprint, calls, misses, first>>

(* a pool.map that drops the chunk that raised and returns the fragments    *)
(* it has                                                                   *)
MapReturnsPartial ==
    /\ pc = "map"
    /\ errors # << >>
    /\ DOMAIN results # {}
    /\ df' = results[CHOOSE k \in DOMAIN results : TRUE]
    /\ pc' = "done"
    /\ UNCHANGED <<per_worker, entry, to_label, raised, errors, vecs, data, cpu, splits, df_split, processes, d, next_chunk,
                   workers, results, completed, fingerprint, calls, misses, first>>

(* pool.map re-raises the first exception a worker sent back, while the     *)
(* other chunks may still be running: run_in_parallel ends with it and      *)
(* returns nothing.                                                         *)
MapRaises ==
    /\ pc = "map"
    /\ errors # << >>
    /\ raised' = errors[1].error
    /\ pc' = "error"
    /\ UNCHANGED <<per_worker, entry, to_label, errors, vecs, data, cpu, splits, df_split, processes, d, next_chunk, workers,
                   results, completed, df, fingerprint, calls, misses, first>>

(* the fragments concatenated in the order they arrived, and left unsorted  *)
AggregateInCompletionOrder ==
    /\ pc = "map"
    /\ DOMAIN results = 1..splits
    /\ df' = Concat([k \in 1..splits |-> results[completed[k]]])
    /\ fingerprint' = hash_pandas_object(df')
    /\ pc' = "done"
    /\ UNCHANGED <<per_worker, entry, to_label, raised, errors, vecs, data, cpu, splits, df_split, processes, d, next_chunk, workers,
                   results, completed, calls, misses, first>>

(* pool.map returns the fragments in partition order; run_in_parallel       *)
(* concatenates them, sorts by the index, logs the hash and returns.        *)
Aggregate ==
    /\ pc = "map"
    /\ DOMAIN results = 1..splits
    /\ df' = sort_index(Concat([k \in 1..splits |-> results[k]]))
    /\ fingerprint' = hash_pandas_object(df')
    /\ pc' = "done"
    /\ UNCHANGED <<per_worker, entry, to_label, raised, errors, vecs, data, cpu, splits, df_split, processes, d, next_chunk, workers,
                   results, completed, calls, misses, first>>

(* data.to_pickle(pickle_path) at the end of __main__, and the frame        *)
(* _get_pos_neg_data makes of the pickle: read back as written, then        *)
(* fillna(0, inplace=True).                                                 *)
GetPosNegData ==
    /\ entry = "__main__"
    /\ pc = "done"
    /\ vecs' = fillna(df, 0)
    /\ pc' = "loaded"
    /\ UNCHANGED <<per_worker, entry, to_label, raised, errors, data, cpu, splits, df_split, processes, d, next_chunk,
                   workers, results, completed, df, fingerprint, calls, misses, first>>

(* pairs_to_vec: run_in_parallel(pair_partition_to_vec, specs) *)
PairsToVec ==
    \/ Split
    \/ SplitRaises
    \/ \E w \in DOMAIN workers :
          \/ TakeChunk(w)
          \/ Contains(w)
          \/ Count(w)
          \/ CountRaises(w)
          \/ Store(w)
          \/ FetchNegative(w)
          \/ FetchPositive(w)
          \/ ReturnFragment(w)
          \/ WorkerRaises(w)
    \/ MapRaises
    \/ Aggregate

Next ==
    \/ PairsToVec
    \/ GetPosNegData

Spec == Init /\ [][Next]_vars

(* The partitioner alone, on lists long enough for cpu_count() * 20 to cap  *)
(* the number of partitions.                                                *)
InitSplit == \E list \in Inputs(MaxSplitN, 1), c \in 1..MaxSplitCpu : Start(list, c)

NextSplit ==
    \/ Split
    \/ SplitRaises

SpecSplit == InitSplit /\ [][NextSplit]_vars

(* Runs on training files one of whose rows, the first or the last, holds a *)
(* payload that is no Vega-Lite specification, next to runs on sound files. *)
WithMalformed(rows, j, category) ==
    [rows EXCEPT ![j] = [@ EXCEPT ![category] = Malformed]]

MalformedInputs(maxN) ==
    UNION { { load_neg_pos_specs(
                  << [source |-> SourceA,
                      data |-> WithMalformed(JsonRows(n, 1), j, category)] >>) :
              j \in {1, n}, category \in Categories } : n \in 1..maxN }

InitParse ==
    \E list \in Inputs(MaxParseN, 1) \cup MalformedInputs(MaxParseN), c \in CpuCounts :
        Start(list, c)

SpecParse == InitParse /\ [][Next]_vars

(* Runs in which the invocations of the counter are recorded by worker,     *)
(* on lists of two recurring example contents.                              *)
InitTrack ==
    \E list \in Inputs(MaxTrackN, 2), c \in CpuCounts : StartRun(list, c, TRUE)

SpecTrack == InitTrack /\ [][Next]_vars

(* get_unlabeled_data, line 271, when load_unlabeled_specs returns: the     *)
(* list goes to pairs_to_vec.                                               *)
LoadUnlabeled ==
    /\ entry = "get_unlabeled_data"
    /\ pc = "load"
    /\ load_unlabeled_specs(to_label).raised = ""
    /\ data' = [i \in 1..Len(load_unlabeled_specs(to_label).raw_data) |->
                  AsPosNeg(load_unlabeled_specs(to_label).raw_data[i])]
    /\ pc' = "start"
    /\ UNCHANGED <<per_worker, entry, to_label, raised, errors, vecs, cpu, splits, df_split, processes, d, next_chunk,
                   workers, results, completed, df, fingerprint, calls, misses, first>>

(* load_unlabeled_specs ends with an exception: get_unlabeled_data ends     *)
(* with it before pairs_to_vec is called.                                   *)
LoadUnlabeledRaises ==
    /\ entry = "get_unlabeled_data"
    /\ pc = "load"
    /\ load_unlabeled_specs(to_label).raised # ""
    /\ raised' = load_unlabeled_specs(to_label).raised
    /\ pc' = "error"
    /\ UNCHANGED <<per_worker, entry, to_label, errors, vecs, data, cpu, splits, df_split, processes, d, next_chunk,
                   workers, results, completed, df, fingerprint, calls, misses, first>>

(* get_unlabeled_data, lines 272-276: vecs is what pairs_to_vec returned;   *)
(* assert len(specs) == len(vecs), then both are returned.                  *)
ReturnUnlabeled ==
    /\ entry = "get_unlabeled_data"
    /\ pc = "done"
    /\ vecs' = df
    /\ IF Len(data) = Len(df.rows)
       THEN pc' = "returned" /\ raised' = raised
       ELSE pc' = "error" /\ raised' = "AssertionError"
    /\ UNCHANGED <<per_worker, entry, to_label, errors, data, cpu, splits, df_split, processes, d, next_chunk,
                   workers, results, completed, df, fingerprint, calls, misses, first>>

InitUnlabeled ==
    \E files \in ToLabel(MaxSpecs), c \in CpuCounts :
        /\ per_worker = [on |-> FALSE, invoked |-> << >>, returned |-> << >>]
        /\ entry = "get_unlabeled_data"
        /\ to_label = files
        /\ raised = ""
        /\ errors = << >>
        /\ vecs = [columns |-> {}, rows |-> << >>]
        /\ data = << >>
        /\ cpu = c
        /\ pc = "load"
        /\ splits = 0
        /\ df_split = << >>
        /\ processes = 0
        /\ d = << >>
        /\ next_chunk = 1
        /\ workers = << >>
        /\ results = << >>
        /\ completed = << >>
        /\ df = [columns |-> {}, rows |-> << >>]
        /\ fingerprint = 0
        /\ calls = << >>
        /\ misses = << >>
        /\ first = << >>

NextUnlabeled ==
    \/ LoadUnlabeled
    \/ LoadUnlabeledRaises
    \/ PairsToVec
    \/ ReturnUnlabeled

SpecUnlabeled == InitUnlabeled /\ [][NextUnlabeled]_vars

(* the operating system schedules every process: a step that stays possible *)
(* is taken                                                                 *)
FairParse == SpecParse /\ WF_vars(Next)

----------------------------------------------------------------------------
(* What a run is expected to return, computed from the example list alone   *)

(* the row of one example, its two vectors counted directly *)
ExpectedRow(example) ==
    DataFrame(RowSpecs(example, count_violations(NegativeTask(example)),
                                count_violations(PositiveTask(example))),
              get_nested_index, example.pair_id).rows[1]

ExpectedRows(list) == SortRows([i \in 1..Len(list) |-> ExpectedRow(list[i])])

ExpectedTable(list) == [columns |-> get_nested_index, rows |-> ExpectedRows(list)]

(* how often x occurs in the sequence s *)
Occurrences(s, x) == Cardinality({i \in 1..Len(s) : s[i] = x})

PairIds(list) == [i \in 1..Len(list) |-> list[i].pair_id]

Indexes(rows) == [i \in 1..Len(rows) |-> rows[i].index]

Ascending(rows) ==
    \A i \in 1..Len(rows) - 1 : StrLeq(rows[i].index, rows[i + 1].index)

Count0(f, x) == IF x \in DOMAIN f THEN f[x] ELSE 0

----------------------------------------------------------------------------
(* C1: determinism. A run that returns returns the table, and logs the      *)
(* fingerprint, that the example list alone determines: the rows of the     *)
(* examples in sorted order, whatever cpu_count(), the number of            *)
(* partitions, the number of workers and their interleaving were. Two runs  *)
(* over the same list therefore return identical tables and fingerprints.   *)
C1_Determinism ==
    pc = "done" =>
        /\ df = ExpectedTable(data)
        /\ fingerprint = hash_pandas_object(ExpectedTable(data))

(* a finished run of two workers that raced: some key was counted twice *)
C1_Witness ==
    /\ pc = "done"
    /\ processes = 2
    /\ \E k \in DOMAIN calls : calls[k] >= 2

(* C2: row count. A run that returns returns exactly one row per example:   *)
(* as many rows as examples, and every pair_id as often in the index as in  *)
(* the input list.                                                          *)
C2_RowCount ==
    pc = "done" =>
        /\ Len(data) > 0
        /\ Len(df.rows) = Len(data)
        /\ \A i \in 1..Len(data) :
              Occurrences(Indexes(df.rows), data[i].pair_id)
                  = Occurrences(PairIds(data), data[i].pair_id)

(* a finished run over two partitions of unequal size *)
C2_Witness ==
    /\ pc = "done"
    /\ splits = 2
    /\ Len(df_split[1]) # Len(df_split[2])
    /\ Len(df.rows) = Len(data)

(* C3: empty input. For an empty example list run_in_parallel does not end  *)
(* in an error: it makes zero partitions and returns a table of no rows     *)
(* over the full column set.                                                *)
C3_EmptyInput ==
    (Len(data) = 0 /\ pc # "start") =>
        /\ pc = "done"
        /\ splits = 0
        /\ df = [columns |-> get_nested_index, rows |-> << >>]


(* C4 as claimed: the number of partitions is the minimum floored to at     *)
(* least 1, and it is 1 for every list of fewer than 10 examples.           *)
C4_Floored ==
    pc # "start" =>
        /\ splits >= 1
        /\ (Len(data) < ItemsPerSplit => splits = 1)

(* C4, amended: the number of partitions is min(cpu_count() * 20,           *)
(* ceil(N / 10)) with no floor. It is the least P with 10 * P >= N unless   *)
(* cpu_count() * 20 is smaller; it is at least 1 for N >= 1, 1 for N from 1 *)
(* to 10, and 0 for N = 0.                                                  *)
C4_PartitionCount ==
    pc # "start" =>
        /\ splits <= cpu * SplitsPerCpu
        /\ ItemsPerSplit * (splits - 1) < Len(data) \/ splits = 0
        /\ splits = cpu * SplitsPerCpu \/ ItemsPerSplit * splits >= Len(data)
        /\ (Len(data) >= 1 => splits >= 1)
        /\ (Len(data) \in 1..ItemsPerSplit => splits = 1)
        /\ (Len(data) = 0 => splits = 0)

(* the partitions of a list so long that cpu_count() * 20 caps their number *)
C4_Witness ==
    /\ pc = "map"
    /\ splits = cpu * SplitsPerCpu
    /\ ItemsPerSplit * splits < Len(data)

RECURSIVE Flatten(_)
Flatten(lists) ==
    IF lists = << >> THEN << >> ELSE Head(lists) \o Flatten(Tail(lists))

RECURSIVE SumLen(_)
SumLen(lists) ==
    IF lists = << >> THEN 0 ELSE Len(Head(lists)) + SumLen(Tail(lists))

RECURSIVE OccurrencesIn(_, _)
(* how often x occurs in the lists together *)
OccurrencesIn(lists, x) ==
    IF lists = << >> THEN 0
    ELSE Occurrences(Head(lists), x) + OccurrencesIn(Tail(lists), x)

(* C5: partition cover. The partitions are consecutive slices of the list:  *)
(* concatenated in partition order they are the list, each starts where the *)
(* one before it ends, and every example is in the partitions as often as   *)
(* in the list, so none is lost, repeated or shared.                        *)
C5_PartitionCover ==
    pc = "map" =>
        /\ Len(df_split) = splits
        /\ Flatten(df_split) = data
        /\ SumLen(df_split) = Len(data)
        /\ \A k \in 1..splits :
              LET start == SumLen(SubSeq(df_split, 1, k - 1))
              IN  df_split[k] = SubSeq(data, start + 1, start + Len(df_split[k]))
        /\ \A i \in 1..Len(data) :
              OccurrencesIn(df_split, data[i]) = Occurrences(data, data[i])

(* a list split into several partitions of two different sizes *)
C5_Witness ==
    /\ pc = "map"
    /\ splits >= 3
    /\ Len(df_split[1]) > Len(df_split[splits])


(* the key of the task a worker is resolving *)
KeyOf(w) == to_asp(workers[w].task)

(* C6: cache hit. Once a vector has been stored for a key, a call of        *)
(* count_violations_memoized that tests the key afterwards goes straight to *)
(* the read, count_violations is not invoked in it, and what any call reads *)
(* back is the vector that was first stored for the key.                    *)
C6_CacheHit ==
    /\ [](\A w \in DOMAIN workers :
            workers[w].pc = "getitem" =>
                /\ KeyOf(w) \in DOMAIN d
                /\ KeyOf(w) \in DOMAIN first
                /\ d[KeyOf(w)] = first[KeyOf(w)])
    /\ [][\A w \in DOMAIN workers :
            /\ (/\ workers[w].pc = "contains"
                /\ KeyOf(w) \in DOMAIN first
                /\ workers'[w] # workers[w])
               => (workers'[w].pc = "getitem" /\ calls' = calls /\ misses' = misses)
            /\ (/\ workers[w].pc = "getitem"
                /\ workers[w].side = "negative"
                /\ workers'[w] # workers[w])
               => workers'[w].neg_feature_vec = first[KeyOf(w)]]_vars

(* two workers about to read the same key back after a single miss: one of  *)
(* them found the key stored                                                *)
C6_Witness ==
    /\ pc = "map"
    /\ processes = 2
    /\ workers[1].pc = "getitem"
    /\ workers[2].pc = "getitem"
    /\ KeyOf(1) = KeyOf(2)
    /\ Count0(misses, KeyOf(1)) = 1
    /\ Count0(calls, KeyOf(1)) = 1

(* the task a key is the program text of *)
TaskOfKey(k) == Task(k[1], [content |-> k[3], first |-> k[4]], k[2])

(* C7: cache consistency. In every interleaving every entry of the shared   *)
(* dict is the whole vector count_violations gives for a task with that     *)
(* key, and every resolution reads back the vector of the task it asked     *)
(* for.                                                                     *)
C7_CacheConsistent ==
    /\ \A k \in DOMAIN d :
          /\ to_asp(TaskOfKey(k)) = k
          /\ d[k] = count_violations(TaskOfKey(k))
    /\ \A w \in DOMAIN workers :
          /\ workers[w].pc = "getitem" =>
                /\ KeyOf(w) \in DOMAIN d
                /\ d[KeyOf(w)] = count_violations(workers[w].task)
          /\ (workers[w].pc \in {"contains", "count", "setitem", "getitem"}
                /\ workers[w].side = "positive") =>
                workers[w].neg_feature_vec =
                    count_violations(NegativeTask(df_split[workers[w].part][workers[w].i]))

(* both workers missed a key, both counted it and both stored it: the       *)
(* second store overwrote the first, and a worker is about to read the key  *)
C7_Witness ==
    /\ pc = "map"
    /\ processes = 2
    /\ \E w \in DOMAIN workers :
          /\ workers[w].pc = "getitem"
          /\ Count0(calls, KeyOf(w)) = 2
          /\ \A v \in DOMAIN workers :
                workers[v].pc \in {"count", "setitem"} => KeyOf(v) # KeyOf(w)

(* the part of a row under one category *)
SubVector(row, category) == [f \in Features |-> row.cells[<<category, f>>]]

TaskOfSide(example, category) ==
    IF category = "negative" THEN NegativeTask(example) ELSE PositiveTask(example)

(* the examples whose rows have been returned, as <<partition, position>> *)
Returned == {kj \in (DOMAIN results) \X (1..Len(data)) : kj[2] <= Len(df_split[kj[1]])}

(* C8: memoization. At every moment of a run count_violations has been      *)
(* invoked for a key at most as often as the key was missed; in the result  *)
(* of the run two tasks with the same key, in whatever examples and         *)
(* partitions, have identical vectors in their rows, and the rows of        *)
(* examples with different pair_ids are different rows, each indexed by     *)
(* the pair_id of its own example.                                          *)
C8_Memoization ==
    /\ DOMAIN calls \subseteq DOMAIN misses
    /\ \A k \in DOMAIN calls : calls[k] <= misses[k]
    /\ pc = "done" => \A a \in Returned, b \in Returned :
          LET ea == df_split[a[1]][a[2]]
              eb == df_split[b[1]][b[2]]
              ra == results[a[1]].rows[a[2]]
              rb == results[b[1]].rows[b[2]]
          IN  /\ ra.index = ea.pair_id
              /\ ea.pair_id # eb.pair_id => ra # rb
              /\ \A ca \in Categories, cb \in Categories :
                    to_asp(TaskOfSide(ea, ca)) = to_asp(TaskOfSide(eb, cb))
                        => SubVector(ra, ca) = SubVector(rb, cb)

(* both partitions returned, their first examples distinct with the same    *)
(* negative task, which two workers counted                                 *)
C8_Witness ==
    /\ pc = "done"
    /\ splits = 2
    /\ DOMAIN results = {1, 2}
    /\ df_split[1][1].pair_id # df_split[2][1].pair_id
    /\ NegativeTask(df_split[1][1]) = NegativeTask(df_split[2][1])
    /\ Count0(calls, to_asp(NegativeTask(df_split[1][1]))) = 2

(* C9: worker output. The fragment pair_partition_to_vec returns for a      *)
(* partition has one row per example of the partition, in the order of the  *)
(* examples, each indexed by the pair_id of its example; the frames a       *)
(* worker has collected so far are those of the examples before the one it  *)
(* is at.                                                                   *)
C9_WorkerOutput ==
    /\ \A k \in DOMAIN results :
          /\ Len(results[k].rows) = Len(df_split[k])
          /\ Indexes(results[k].rows) = PairIds(df_split[k])
    /\ \A w \in DOMAIN workers :
          workers[w].pc \in {"contains", "count", "setitem", "getitem"} =>
              /\ Len(workers[w].dfs) = workers[w].i - 1
              /\ \A j \in 1..Len(workers[w].dfs) :
                    /\ Len(workers[w].dfs[j].rows) = 1
                    /\ workers[w].dfs[j].rows[1].index
                          = df_split[workers[w].part][j].pair_id

(* a returned fragment of several rows whose pair_ids are not in sorted     *)
(* order                                                                    *)
C9_Witness ==
    \E k \in DOMAIN results :
        /\ Len(results[k].rows) >= 2
        /\ ~Ascending(results[k].rows)

(* the fragments, concatenated in the given order of the partitions *)
ConcatInOrder(order) == Concat([k \in 1..Len(order) |-> results[order[k]]])

(* C10: aggregation order. The table of a run that returns has its rows in  *)
(* ascending order of pair_id (as strings); it is the sorted concatenation  *)
(* of the fragments in partition order, the order in which the fragments    *)
(* arrived changes neither the order of the index nor the table, which is   *)
(* the one the example list determines.                                     *)
C10_AggregationOrder ==
    pc = "done" =>
        /\ Ascending(df.rows)
        /\ df.rows = SortRows(ConcatInOrder([k \in 1..splits |-> k]).rows)
        /\ Indexes(df.rows) = Indexes(SortRows(ConcatInOrder(completed).rows))
        /\ df.rows = ExpectedRows(data)

(* a finished run whose second fragment arrived before the first, and       *)
(* whose rows were not in sorted order when concatenated                    *)
C10_Witness ==
    /\ pc = "done"
    /\ completed = <<2, 1>>
    /\ ~Ascending(ConcatInOrder(<<1, 2>>).rows)

----------------------------------------------------------------------------
(* an exception has left pair_partition_to_vec in some worker *)
Failed ==
    \/ errors # << >>
    \/ \E w \in DOMAIN workers : workers[w].pc = "failed"

NoFrame == [columns |-> {}, rows |-> << >>]

(* C11: fail-fast. Once the counter or the parsing of a payload has raised  *)
(* for a task of any partition, run_in_parallel never returns: no table is  *)
(* built and no fingerprint logged, whatever the other partitions have      *)
(* returned to the pool, and the run ends with the first exception a        *)
(* worker sent back.                                                        *)
C11_FailFast ==
    /\ [](Failed => /\ pc \in {"map", "error"}
                    /\ df = NoFrame
                    /\ fingerprint = 0)
    /\ [](pc = "error" => /\ df = NoFrame
                          /\ raised # ""
                          /\ errors # << >> => raised = errors[1].error)
    /\ (Failed ~> pc = "error")

(* a run ended by a malformed payload after another partition had returned  *)
(* its fragment                                                             *)
C11_Witness ==
    /\ pc = "error"
    /\ raised = "DataFormatError"
    /\ DOMAIN results # {}
    /\ \E k \in DOMAIN results : Len(results[k].rows) > 0

----------------------------------------------------------------------------
(* load_unlabeled_specs gets as far as a pair whose two sides are equal:    *)
(* every pair before it has passed both assertions                          *)
MeetsSameContent(files) ==
    LET pairs == PairsOfFiles(files)
    IN  \E k \in 1..Len(pairs) :
            /\ pairs[k][1] = pairs[k][2]
            /\ \A j \in 1..(k - 1) :
                  /\ pairs[j][1] # pairs[j][2]
                  /\ pairs[j][1].data.url = pairs[j][2].data.url

(* what holds of such a directory: get_unlabeled_data ends with an          *)
(* exception, no list is handed on, no partition is made and the counter    *)
(* is never invoked                                                         *)
AbortsBeforeCounting ==
    (pc # "load" /\ MeetsSameContent(to_label)) =>
        /\ pc = "error"
        /\ raised # ""
        /\ data = << >>
        /\ df_split = << >>
        /\ calls = << >>
        /\ misses = << >>

(* C12: unlabeled-pair validation. When load_unlabeled_specs meets a pair   *)
(* whose left and right payloads are equal, it raises the validation error  *)
(* of its assertion, returns no example list, and no violation counting     *)
(* has taken place.                                                         *)
C12_UnlabeledValidation ==
    (pc # "load" /\ MeetsSameContent(to_label)) =>
        /\ pc = "error"
        /\ raised = "AssertionError"
        /\ data = << >>
        /\ calls = << >>

----------------------------------------------------------------------------
(* no element stands twice in the sequence *)
NoDuplicate(s) == \A i, j \in 1..Len(s) : s[i] = s[j] => i = j

(* C13: pair_id uniqueness. A list that a run has taken to its table holds  *)
(* no pair_id twice, and neither does the index of the table: the loaders   *)
(* build lists without duplicates, and a list with one is rejected before   *)
(* a table is returned.                                                     *)
C13_UniquePairIds ==
    pc \in {"done", "loaded", "returned"} =>
        /\ NoDuplicate(PairIds(data))
        /\ NoDuplicate(Indexes(df.rows))

(* what holds of load_unlabeled_specs, whose counter runs on over all       *)
(* files: the pair_ids of its list are all different                        *)
UnlabeledIdsUnique ==
    /\ pc # "load" => NoDuplicate(PairIds(data))
    /\ LET r == load_unlabeled_specs(to_label)
       IN  \A i \in 1..Len(r.raw_data) :
               r.raw_data[i].pair_id = PairId(Halden, i - 1)

----------------------------------------------------------------------------
(* the key of one side of an example, from the content of the example       *)
(* alone: its schema, its task type, the payload of the side, and the       *)
(* encodings numbered from 0 in the negative payload and on from the last   *)
(* encoding of the negative payload in the positive one                     *)
ContentKey(example, category) ==
    <<example.data, example.task, example[category],
      IF category = "negative" THEN 0 ELSE NumEncodings(example.negative)>>

Busy(w) == workers[w].pc \in {"contains", "count", "setitem", "getitem"}

(* C14: example-local numbering. The key a worker resolves for a side of    *)
(* an example is the one the content of that example determines, whichever  *)
(* worker it is, wherever the example stands in its partition and whatever  *)
(* examples came before it; so two workers at examples of equal content are *)
(* at the same key, and every key of the shared dict is the key of a side   *)
(* of some example of the list.                                             *)
C14_ExampleLocalNumbering ==
    /\ \A w \in DOMAIN workers :
          Busy(w) =>
              KeyOf(w) = ContentKey(df_split[workers[w].part][workers[w].i],
                                    workers[w].side)
    /\ \A k \in DOMAIN d :
          \E i \in 1..Len(data), category \in Categories :
              k = ContentKey(data[i], category)

(* the second worker at the positive task of a later example of the second  *)
(* partition, the shared dict holding that key already                      *)
C14_Witness ==
    /\ 2 \in DOMAIN workers
    /\ Busy(2)
    /\ workers[2].part = 2
    /\ workers[2].i >= 3
    /\ workers[2].side = "positive"
    /\ KeyOf(2) \in DOMAIN d

----------------------------------------------------------------------------
(* C15: cache monotonicity. No step of a run removes a key from the shared  *)
(* dict, and no step changes the vector stored under a key that is there:   *)
(* a worker that lost the race writes the vector that is already stored.    *)
C15_CacheMonotone ==
    [][/\ DOMAIN d \subseteq DOMAIN d'
       /\ \A k \in DOMAIN d : d'[k] = d[k]]_vars

(* a key counted twice and stored twice without any failure, the second     *)
(* store on top of the first, in a dict of several keys                     *)
C15_Witness ==
    /\ pc = "map"
    /\ ~Failed
    /\ Cardinality(DOMAIN d) >= 2
    /\ \E k \in DOMAIN d :
          /\ Count0(calls, k) = 2
          /\ \A w \in DOMAIN workers :
                workers[w].pc \in {"count", "setitem"} => KeyOf(w) # k

----------------------------------------------------------------------------
(* the value the row of an example is to hold under a feature of a          *)
(* category: the count of the task's vector, and fill where the vector      *)
(* has no entry for the feature                                             *)
CellOf(example, category, f, fill) ==
    LET vec == count_violations(TaskOfSide(example, category))
    IN  IF f \in DOMAIN vec THEN vec[f] ELSE fill

(* every row of the frame is over the whole column set, belongs to an       *)
(* example of the list and holds that example's counts, with fill where a   *)
(* vector has no entry                                                      *)
FilledWith(frame, fill) ==
    \A r \in 1..Len(frame.rows) :
        /\ DOMAIN frame.rows[r].cells
              = (Categories \X Features) \cup {<<"source", "">>, <<"task", "">>}
        /\ \E i \in 1..Len(data) :
              /\ data[i].pair_id = frame.rows[r].index
              /\ \A category \in Categories, f \in Features :
                    frame.rows[r].cells[<<category, f>>]
                        = CellOf(data[i], category, f, fill)

(* C16 as stated: fixed zero-filled schema. Every row of the table          *)
(* pairs_to_vec returns is over the same column set, the two categories     *)
(* times every feature name plus source and task, and holds zero, never a   *)
(* missing value, under a feature name the counter result of the task       *)
(* lacks.                                                                   *)
C16_ZeroFilledSchema ==
    pc \in {"done", "loaded"} => FilledWith(df, 0)

(* C16 as the code has it: every row of the table pairs_to_vec returns is   *)
(* over the same column set, with NaN under the feature names a counter     *)
(* result lacks; the zeros are in the frame _get_pos_neg_data makes of the  *)
(* pickled table, row for row the same table with every NaN replaced.       *)
C16_ZeroFilledOnReload ==
    /\ pc \in {"done", "loaded"} => FilledWith(df, NaN)
    /\ pc = "loaded" => /\ FilledWith(vecs, 0)
                        /\ Indexes(vecs.rows) = Indexes(df.rows)
                        /\ vecs = fillna(df, 0)

(* a table reloaded by _get_pos_neg_data: a row of the returned table holds *)
(* NaN under a feature its task's vector lacks, the reloaded row zero       *)
C16_Witness ==
    /\ pc = "loaded"
    /\ \E r \in 1..Len(df.rows), c \in Categories \X Features :
          /\ df.rows[r].cells[c] = NaN
          /\ vecs.rows[r].cells[c] = 0

(* what get_unlabeled_data returns is the table of pairs_to_vec as it is *)
UnlabeledNotFilled ==
    pc = "returned" => vecs = df /\ FilledWith(vecs, NaN)

----------------------------------------------------------------------------
(* a step of worker w inside pair_partition_to_vec or on its way out of it *)
WorkerStep(w) ==
    \/ Contains(w)
    \/ Count(w)
    \/ CountRaises(w)
    \/ Store(w)
    \/ FetchNegative(w)
    \/ FetchPositive(w)
    \/ ReturnFragment(w)
    \/ WorkerRaises(w)

(* C17: progress. While the pool runs, a worker inside a partition can      *)
(* always take its next step, whatever the other workers are at: it never   *)
(* waits for another worker, and a key it misses it counts itself. No       *)
(* state short of the end of the program is without a next step, and under  *)
(* fair scheduling, the counter returning or raising at every invocation,   *)
(* every run finishes: run_in_parallel returns its table or ends with an    *)
(* exception.                                                               *)
C17_Progress ==
    /\ [](pc = "map" =>
            \A w \in DOMAIN workers :
                (Busy(w) \/ workers[w].pc = "failed") => ENABLED WorkerStep(w))
    /\ [](pc \notin {"loaded", "error"} => ENABLED Next)
    /\ <>(pc \in {"done", "error"})

(* both workers at the counter for the same key: the second missed the key  *)
(* while the first was counting it                                          *)
C17_Witness ==
    /\ pc = "map"
    /\ processes = 2
    /\ workers[1].pc = "count"
    /\ workers[2].pc = "count"
    /\ KeyOf(1) = KeyOf(2)
    /\ KeyOf(1) \notin DOMAIN d

----------------------------------------------------------------------------
(* C18: non-empty balanced partitions. For a list of at least one example   *)
(* and any cpu count, every partition np.array_split makes holds at least   *)
(* one example, no partition is longer than one before it, and the first    *)
(* is at most one example longer than the last: pair_partition_to_vec is    *)
(* never handed an empty partition.                                         *)
C18_BalancedPartitions ==
    (pc = "map" /\ Len(data) >= 1) =>
        /\ splits >= 1
        /\ DOMAIN df_split = 1..splits
        /\ \A k \in 1..splits : Len(df_split[k]) >= 1
        /\ \A k \in 1..(splits - 1) : Len(df_split[k]) >= Len(df_split[k + 1])
        /\ Len(df_split[1]) - Len(df_split[splits]) <= 1

(* a list cut into the most partitions the cpu count allows, the first of   *)
(* them one example longer than the last                                    *)
C18_Witness ==
    /\ pc = "map"
    /\ splits = cpu * SplitsPerCpu
    /\ Len(df_split[1]) = Len(df_split[splits]) + 1

----------------------------------------------------------------------------
(* how many invocations of the counter for key k have raised *)
Raises(k) ==
    Cardinality({j \in 1..Len(errors) :
                    errors[j].error = "ComputeError" /\ errors[j].key = k})
    + Cardinality({w \in DOMAIN workers :
                    /\ workers[w].pc = "failed"
                    /\ workers[w].error = "ComputeError"
                    /\ KeyOf(w) = k})

(* C19: a failed compute leaves the cache unchanged. The step in which the  *)
(* counter raises inside count_violations_memoized changes nothing in the   *)
(* shared dict: no entry is written for the key and every other entry       *)
(* stays as it is. So a key is in the dict only if some invocation of the   *)
(* counter for it returned.                                                 *)
C19_FailedComputeNotCached ==
    /\ [][\A w \in DOMAIN workers :
             (workers[w].pc = "count" /\ workers'[w].pc = "failed") => d' = d]_vars
    /\ [](\A k \in DOMAIN d : Count0(calls, k) > Raises(k))

(* the counter has raised for a key that is not in the dict, which holds    *)
(* other keys                                                               *)
C19_Witness ==
    /\ pc = "map"
    /\ d # << >>
    /\ \E j \in 1..Len(errors) :
          /\ errors[j].error = "ComputeError"
          /\ errors[j].key \notin DOMAIN d

----------------------------------------------------------------------------
(* C20 as stated: bounded redundant computation. No worker process invokes  *)
(* the counter twice for the same key, so the counter is invoked for one    *)
(* key at most W = min(cpu_count, P) times, the number of worker            *)
(* processes, and exactly once when W = 1.                                  *)
C20_BoundedInvocations ==
    /\ \A wk \in DOMAIN per_worker.invoked : per_worker.invoked[wk] <= 1
    /\ \A k \in DOMAIN calls : calls[k] <= processes
    /\ processes = 1 => \A k \in DOMAIN calls : calls[k] = 1

(* C20 as the code has it: no worker process gets the counter to return     *)
(* twice for the same key, and once it has returned to a worker for a key   *)
(* that worker never invokes it for the key again. So the invocations for   *)
(* one key that return are at most W = min(cpu_count, P), and exactly one   *)
(* for every stored key when W = 1; an invocation that raises stores        *)
(* nothing and comes on top.                                                *)
C20_BoundedReturns ==
    /\ [](/\ \A wk \in DOMAIN per_worker.returned : per_worker.returned[wk] <= 1
          /\ \A k \in DOMAIN calls : calls[k] - Raises(k) <= processes
          /\ processes = 1 => \A k \in DOMAIN d : calls[k] - Raises(k) = 1)
    /\ [][\A wk \in DOMAIN per_worker.returned :
             per_worker'.invoked[wk] = per_worker.invoked[wk]]_vars

(* a single worker process that invoked the counter twice for one key: the  *)
(* first invocation raised in one partition, the second returned in the     *)
(* next, and the key is stored                                              *)
C20_Witness ==
    /\ pc = "map"
    /\ processes = 1
    /\ \E wk \in DOMAIN per_worker.returned :
          /\ per_worker.invoked[wk] = 2
          /\ per_worker.returned[wk] = 1
          /\ wk[2] \in DOMAIN d

====
